---------------------------- MODULE Spec2Model ----------------------------
(***************************************************************************)
(* A model of giraffe's query/filter engine and environment statistics.   *)
(*                                                                         *)
(*   src/src/data/filter.rs           Filter::new, Filter::apply           *)
(*   src/src/data/note_statistics.rs  EnvironmentStats::new_with_filters   *)
(*                                                                         *)
(* Rust strings are modelled as sequences of one-character strings, so    *)
(* that prefix tests, trimming and splitting at '/' are computed and not  *)
(* assumed.  Option<i64> is the record [is_some, val].                     *)
(***************************************************************************)
EXTENDS Integers, Sequences, FiniteSets

VARIABLES
    pc,             \* position of the running operation
    filter_string,  \* Filter::new: the query argument
    any_arg,        \* Filter::new: the any argument
    filter,         \* a filter::Filter value (result of new, receiver of apply)
    note,           \* Filter::apply: the note argument
    any,            \* Filter::apply: local `any`
    all,            \* Filter::apply: local `all`
    ti,             \* Filter::apply: tag predicates already visited by the first loop
    li,             \* Filter::apply: link predicates already visited by the second loop
    result,         \* Filter::apply: the returned Option<i64>
    index,          \* new_with_filters: the index argument (id -> Note)
    env_filter,     \* new_with_filters: the note_statistics::Filter argument
    filtered_index, \* new_with_filters: local `filtered_index` (id -> NoteEnvStatistics)
    todo,           \* new_with_filters: ids the second pass has not visited yet
    stats           \* new_with_filters: the returned EnvironmentStats

vars == <<pc, filter_string, any_arg, filter, note, any, all, ti, li, result,
          index, env_filter, filtered_index, todo, stats>>

newVars   == <<filter_string, any_arg>>
applyVars == <<note, any, all, ti, li, result>>
statsVars == <<index, env_filter, filtered_index, todo, stats>>

-----------------------------------------------------------------------------
(* Strings *)

Str(n, alphabet) == UNION {[1..k -> alphabet] : k \in 0..n}

StartsWith(s, p) == Len(s) >= Len(p) /\ SubSeq(s, 1, Len(p)) = p

Drop(s, n) == SubSeq(s, n + 1, Len(s))

\* str::trim_start_matches: the prefix is removed repeatedly.
RECURSIVE TrimStartMatches(_, _)
TrimStartMatches(s, p) ==
    IF p # <<>> /\ StartsWith(s, p) THEN TrimStartMatches(Drop(s, Len(p)), p) ELSE s

\* str::split_whitespace: the maximal runs of non-whitespace, in order.
RECURSIVE SplitRec(_, _, _, _)
SplitRec(s, i, cur, acc) ==
    IF i > Len(s) THEN (IF cur = <<>> THEN acc ELSE Append(acc, cur))
    ELSE IF s[i] = " "
         THEN SplitRec(s, i + 1, <<>>, IF cur = <<>> THEN acc ELSE Append(acc, cur))
         ELSE SplitRec(s, i + 1, Append(cur, s[i]), acc)

SplitWhitespace(s) == SplitRec(s, 1, <<>>, <<>>)

LowerChar(c) == CASE c = "A" -> "a" [] c = "B" -> "b" [] c = "M" -> "m" [] OTHER -> c

ToLowercase(s) == [i \in 1..Len(s) |-> LowerChar(s[i])]

\* data::name_to_id is not among the sources; the query test expects
\* "Manifold" -> "manifold".  Tokens never hold whitespace.
name_to_id(name) == ToLowercase(name)

-----------------------------------------------------------------------------
(* Option<i64> *)

None == [is_some |-> FALSE, val |-> 0]

Some(x) == [is_some |-> TRUE, val |-> x]

-----------------------------------------------------------------------------
(* filter::Filter::new *)

EmptyFilter(a) == [any |-> a, tags |-> <<>>, links |-> <<>>, title |-> <<>>]

\* One iteration of the loop over the words.
NewWord(f, word) ==
    IF StartsWith(word, <<"!", "#">>)
    THEN [f EXCEPT !.tags = Append(@, <<TrimStartMatches(word, <<"!">>), FALSE>>)]
    ELSE IF StartsWith(word, <<"#">>)
    THEN [f EXCEPT !.tags = Append(@, <<word, TRUE>>)]
    ELSE IF StartsWith(word, <<"!", ">">>)
    THEN [f EXCEPT !.links =
            Append(@, <<name_to_id(TrimStartMatches(word, <<"!", ">">>)), FALSE>>)]
    ELSE IF StartsWith(word, <<">">>)
    THEN [f EXCEPT !.links =
            Append(@, <<name_to_id(TrimStartMatches(word, <<">">>)), TRUE>>)]
    ELSE [f EXCEPT !.title = @ \o word]

RECURSIVE NewWords(_, _, _)
NewWords(f, words, i) ==
    IF i > Len(words) THEN f ELSE NewWords(NewWord(f, words[i]), words, i + 1)

New(s, a) == NewWords(EmptyFilter(a), SplitWhitespace(s), 1)

-----------------------------------------------------------------------------
(* Values of the variables an operation does not use *)

NoNote == [name |-> <<>>, tags |-> <<>>, links |-> <<>>]

NoEnvFilter == [all_tags |-> FALSE, tags |-> <<>>, title |-> <<>>]

NoStats == [word_count_total |-> 0, char_count_total |-> 0,
            note_count_total |-> 0, tag_count_total |-> 0,
            local_local_links |-> 0, local_global_links |-> 0,
            global_local_links |-> 0, broken_links |-> 0,
            filtered_stats |-> <<>>]

IdleNew == filter_string = <<>> /\ any_arg = FALSE

IdleApply ==
    /\ note = NoNote /\ any = FALSE /\ all = TRUE /\ ti = 0 /\ li = 0
    /\ result = None

IdleStats ==
    /\ index = <<>> /\ env_filter = NoEnvFilter /\ filtered_index = <<>>
    /\ todo = {} /\ stats = NoStats

-----------------------------------------------------------------------------
(* Filter::new over every query of a bounded length *)

MaxQueryLen == 5

QueryAlphabet == {"!", "#", ">", "a", "M", " "}

InitNew ==
    /\ pc = "new"
    /\ filter_string \in Str(MaxQueryLen, QueryAlphabet)
    /\ any_arg \in BOOLEAN
    /\ filter = EmptyFilter(FALSE)
    /\ IdleApply
    /\ IdleStats

FilterNew ==
    /\ pc = "new"
    /\ filter' = New(filter_string, any_arg)
    /\ pc' = "done"
    /\ UNCHANGED <<newVars, applyVars, statsVars>>

NextNew == FilterNew

SpecNew == InitNew /\ [][NextNew]_vars

\* The effect of one token as the classification table states it: the prefix
\* is taken off once.
ClaimedWord(f, word) ==
    IF StartsWith(word, <<"!", "#">>)
    THEN [f EXCEPT !.tags = Append(@, <<Drop(word, 1), FALSE>>)]
    ELSE IF StartsWith(word, <<"#">>)
    THEN [f EXCEPT !.tags = Append(@, <<word, TRUE>>)]
    ELSE IF StartsWith(word, <<"!", ">">>)
    THEN [f EXCEPT !.links = Append(@, <<name_to_id(Drop(word, 2)), FALSE>>)]
    ELSE IF StartsWith(word, <<">">>)
    THEN [f EXCEPT !.links = Append(@, <<name_to_id(Drop(word, 1)), TRUE>>)]
    ELSE [f EXCEPT !.title = @ \o word]

RECURSIVE ClaimedWords(_, _, _)
ClaimedWords(f, words, i) ==
    IF i > Len(words) THEN f ELSE ClaimedWords(ClaimedWord(f, words[i]), words, i + 1)

\* C4: Filter::new classifies each whitespace-separated token by the first
\* matching prefix among "!#", "#", "!>", ">": a "!#" token appends (token
\* without its single leading "!", false) to the tag predicates, a "#" token
\* appends (token, true), a "!>" token appends (name_to_id(name after "!>"),
\* false) to the link predicates, a ">" token appends (name_to_id(name after
\* ">"), true), every other token is appended to title_query; one effect per
\* token, order preserved.
C4_NewClassifiesTokens ==
    pc = "done" =>
        filter = ClaimedWords(EmptyFilter(any_arg), SplitWhitespace(filter_string), 1)

-----------------------------------------------------------------------------
(* The fuzzy scorer (fuzzy_matcher::skim::SkimMatcherV2, an external crate). *)
(* Modelled from the engine's description of it: the pattern must be a      *)
(* case-insensitive subsequence of the choice; consecutive matches and a    *)
(* match at the start score higher; the empty pattern scores the baseline.  *)
(* Patterns are kept lower-case, where smart case and ignoring case agree.  *)

RECURSIVE FuzzyRec(_, _, _, _, _, _)
FuzzyRec(choice, pattern, ci, pi, last, score) ==
    IF pi > Len(pattern) THEN Some(score)
    ELSE IF ci > Len(choice) THEN None
    ELSE IF LowerChar(choice[ci]) = LowerChar(pattern[pi])
         THEN FuzzyRec(choice, pattern, ci + 1, pi + 1, ci,
                       score + 16 + (IF pi > 1 /\ last = ci - 1 THEN 8 ELSE 0)
                                  + (IF ci = 1 THEN 8 ELSE 0))
         ELSE FuzzyRec(choice, pattern, ci + 1, pi, last, score)

fuzzy_match(choice, pattern) == FuzzyRec(choice, pattern, 1, 1, 0, 0)

-----------------------------------------------------------------------------
(* filter::Filter::apply *)

Contains(seq, x) == \E i \in 1..Len(seq) : seq[i] = x

\* Subtags with every prefix taken, not only those ending before a "/".
SubtagsAnyPrefix(tag) == {SubSeq(tag, 1, i) : i \in 0..Len(tag)}

\* The substrings of a note tag that are compared with the searched tag: the
\* text before every "/" and the whole tag.
Subtags(tag) ==
    {SubSeq(tag, 1, i - 1) : i \in {j \in 1..Len(tag) : tag[j] = "/"}} \cup {tag}

\* .any(|subtag| subtag == tag) over the flattened substrings of all note tags.
TagFound(n, tag) == \E k \in 1..Len(n.tags) : tag \in Subtags(n.tags[k])

\* One iteration of the loop over self.tags.
TagStep(flags, n, pred) ==
    IF TagFound(n, pred[1]) = pred[2]
    THEN [flags EXCEPT !.any = TRUE]
    ELSE [flags EXCEPT !.all = FALSE]

\* One iteration of the loop over self.links.
LinkStep(flags, n, pred) ==
    IF Contains(n.links, pred[1]) = pred[2]
    THEN [flags EXCEPT !.any = TRUE]
    ELSE [flags EXCEPT !.all = FALSE]

\* Excluded with the two modes exchanged.
ExcludedModesSwapped(f, flags) ==
    /\ ~(f.tags = <<>> /\ f.links = <<>>)
    /\ ((f.any /\ ~flags.all) \/ (~f.any /\ ~flags.any))

\* The condition of the early `return None`.
Excluded(f, flags) ==
    /\ ~(f.tags = <<>> /\ f.links = <<>>)
    /\ ((~f.any /\ ~flags.all) \/ (f.any /\ ~flags.any))

ApplyReturnValue(f, n, flags) ==
    IF Excluded(f, flags) THEN None ELSE fuzzy_match(n.name, f.title)

RECURSIVE ApplyTags(_, _, _, _)
ApplyTags(flags, f, n, i) ==
    IF i > Len(f.tags) THEN flags
    ELSE ApplyTags(TagStep(flags, n, f.tags[i]), f, n, i + 1)

RECURSIVE ApplyLinks(_, _, _, _)
ApplyLinks(flags, f, n, i) ==
    IF i > Len(f.links) THEN flags
    ELSE ApplyLinks(LinkStep(flags, n, f.links[i]), f, n, i + 1)

\* The whole function, as new_with_filters' callers would use it.
Apply(f, n) ==
    ApplyReturnValue(f, n,
        ApplyLinks(ApplyTags([any |-> FALSE, all |-> TRUE], f, n, 1), f, n, 1))

ApplyTag ==
    /\ pc = "apply"
    /\ ti < Len(filter.tags)
    /\ LET flags == TagStep([any |-> any, all |-> all], note, filter.tags[ti + 1])
       IN  any' = flags.any /\ all' = flags.all
    /\ ti' = ti + 1
    /\ UNCHANGED <<pc, filter, note, li, result, newVars, statsVars>>

ApplyLink ==
    /\ pc = "apply"
    /\ ti = Len(filter.tags)
    /\ li < Len(filter.links)
    /\ LET flags == LinkStep([any |-> any, all |-> all], note, filter.links[li + 1])
       IN  any' = flags.any /\ all' = flags.all
    /\ li' = li + 1
    /\ UNCHANGED <<pc, filter, note, ti, result, newVars, statsVars>>

ApplyReturn ==
    /\ pc = "apply"
    /\ ti = Len(filter.tags)
    /\ li = Len(filter.links)
    /\ result' = ApplyReturnValue(filter, note, [any |-> any, all |-> all])
    /\ pc' = "done"
    /\ UNCHANGED <<filter, note, any, all, ti, li, newVars, statsVars>>

ApplyStart ==
    /\ pc = "apply" /\ any = FALSE /\ all = TRUE /\ ti = 0 /\ li = 0 /\ result = None

-----------------------------------------------------------------------------
(* Filter::apply, one tag predicate against every note tag list *)

MaxTagLen == 5

TagAlphabet == {"a", "/"}

TagStrings == Str(MaxTagLen, TagAlphabet)

\* A note with no tag, one tag or two tags.
NoteTagLists ==
    {<<>>} \cup {<<t>> : t \in TagStrings} \cup {<<t, u>> : t, u \in TagStrings}

InitTag ==
    /\ ApplyStart
    /\ \E p \in TagStrings, included \in BOOLEAN :
          filter = [any |-> FALSE, tags |-> <<<<p, included>>>>, links |-> <<>>,
                    title |-> <<>>]
    /\ \E tl \in NoteTagLists : note = [name |-> <<"a">>, tags |-> tl, links |-> <<>>]
    /\ IdleNew
    /\ IdleStats

NextTag == ApplyTag \/ ApplyReturn

SpecTag == InitTag /\ [][NextTag]_vars

\* Tag t is path p or lies below it in the hierarchy.
EqualsOrExtends(t, p) ==
    \/ t = p
    \/ Len(t) > Len(p) /\ SubSeq(t, 1, Len(p)) = p /\ t[Len(p) + 1] = "/"

TagExpectationMet(n, pred) ==
    (\E k \in 1..Len(n.tags) : EqualsOrExtends(n.tags[k], pred[1])) = pred[2]

\* C2: a tag predicate (p, true) has its expectation met iff p equals a tag of
\* the note or a proper ancestor path of one (a prefix of the tag that ends
\* just before a "/"); a predicate (p, false) has it met iff no tag of the
\* note equals or extends p.  Every step of the loop over the tag predicates
\* takes the `any = true` branch exactly when the expectation is met and the
\* `all = false` branch otherwise.
C2_TagPredicateMet ==
    [][(pc = "apply" /\ ti' = ti + 1) =>
         IF TagExpectationMet(note, filter.tags[ti'])
         THEN any' /\ all' = all
         ELSE ~all' /\ any' = any]_vars

\* Predicate a is met by the tag a/a/a (an ancestor path) of a note whose
\* other tag is aa.
C2_Witness ==
    /\ pc = "apply" /\ ti = 1 /\ any
    /\ filter.tags = <<<<<<"a">>, TRUE>>>>
    /\ note.tags = <<<<"a", "a">>, <<"a", "/", "a", "/", "a">>>>

-----------------------------------------------------------------------------
(* Filter::apply, filters of several predicates *)

MaxPreds == 2

PredTags == {<<"a">>, <<"a", "/", "b">>}

NoteTags == {<<"a">>, <<"a", "/", "b">>, <<"b">>}

LinkIds == {<<"m">>, <<"a">>}

Titles == {<<>>, <<"a">>, <<"b", "a">>}

Names == {<<"A", "b">>, <<"b">>}

\* Filters of at most MaxPreds predicates, tag and link predicates together.
Filters ==
    UNION {
      UNION {
        [any : BOOLEAN,
         tags : [1..nt -> PredTags \X BOOLEAN],
         links : [1..(n - nt) -> LinkIds \X BOOLEAN],
         title : Titles] : nt \in 0..n} : n \in 0..MaxPreds}

Notes ==
    [name : Names,
     tags : {<<>>} \cup {<<t>> : t \in NoteTags},
     links : {<<>>} \cup {<<l>> : l \in LinkIds}]

InitApply ==
    /\ ApplyStart
    /\ filter \in Filters
    /\ note \in Notes
    /\ IdleNew
    /\ IdleStats

NextApply == ApplyTag \/ ApplyLink \/ ApplyReturn

SpecApply == InitApply /\ [][NextApply]_vars

LinkExpectationMet(n, pred) == (pred[1] \in {n.links[i] : i \in 1..Len(n.links)}) = pred[2]

\* The predicates of a filter that meet their expectation on a note.
MetTags(f, n) == {i \in 1..Len(f.tags) : TagExpectationMet(n, f.tags[i])}

MetLinks(f, n) == {i \in 1..Len(f.links) : LinkExpectationMet(n, f.links[i])}

GatePasses(f, n) ==
    \/ Len(f.tags) = 0 /\ Len(f.links) = 0
    \/ ~f.any /\ MetTags(f, n) = 1..Len(f.tags) /\ MetLinks(f, n) = 1..Len(f.links)
    \/ f.any /\ (MetTags(f, n) # {} \/ MetLinks(f, n) # {})

\* C3: gating passes iff the filter has no tag and no link predicate, or the
\* mode is ALL and every predicate meets its expectation, or the mode is ANY
\* and at least one does; the result is then the fuzzy score of title_query
\* against note.name, and none when gating fails.
C3_GatingThenFuzzy ==
    pc = "done" =>
        result = IF GatePasses(filter, note)
                 THEN fuzzy_match(note.name, filter.title)
                 ELSE None

\* ANY mode, one predicate met (the wanted link) and one not (the tag), and
\* the title matches: the note is kept with its score.
C3_Witness ==
    /\ pc = "done"
    /\ filter.any
    /\ Len(filter.tags) = 1 /\ Len(filter.links) = 1
    /\ MetTags(filter, note) = {} /\ MetLinks(filter, note) = {1}
    /\ filter.title # <<>>
    /\ result.is_some

-----------------------------------------------------------------------------
(* note_statistics::EnvironmentStats::new_with_filters *)

\* The loop over filter.tags of the first pass: (any_tag, all_tags).
RECURSIVE EnvTagLoop(_, _, _, _)
EnvTagLoop(flags, ef, n, i) ==
    IF i > Len(ef.tags) THEN flags
    ELSE EnvTagLoop(IF Contains(n.tags, ef.tags[i])
                    THEN [flags EXCEPT !.any_tag = TRUE]
                    ELSE [flags EXCEPT !.all_tags = FALSE], ef, n, i + 1)

\* The closure of filter_map: the match score of a note that is kept.
EnvEvaluate(ef, n) ==
    LET flags == EnvTagLoop([any_tag |-> ef.tags = <<>>, all_tags |-> TRUE], ef, n, 1)
    IN  IF ~((ef.all_tags /\ flags.all_tags) \/ (~ef.all_tags /\ flags.any_tag))
        THEN None
        ELSE fuzzy_match(n.name, ef.title)

new_empty(id, match_score) ==
    [id |-> id, match_score |-> match_score, inlinks_global |-> 0,
     inlinks_local |-> 0, outlinks_local |-> 0, outlinks_global |-> 0,
     broken_links |-> 0]

\* LinkVisit without the test of local_source.
LinkVisitAlwaysLocal(acc, link, local_source, idx) ==
    IF link \in DOMAIN acc.fi
    THEN [fi |-> [acc.fi EXCEPT ![link].inlinks_global = @ + 1,
                                ![link].inlinks_local = @ + 1],
          local_targets |-> acc.local_targets + 1,
          global_targets |-> acc.global_targets + 1]
    ELSE IF link \in DOMAIN idx
         THEN [acc EXCEPT !.global_targets = @ + 1]
         ELSE acc

\* LinkVisit counting the global inlink only for a source outside.
LinkVisitEitherInlink(acc, link, local_source, idx) ==
    IF link \in DOMAIN acc.fi
    THEN [fi |-> IF local_source
                 THEN [acc.fi EXCEPT ![link].inlinks_local = @ + 1]
                 ELSE [acc.fi EXCEPT ![link].inlinks_global = @ + 1],
          local_targets |-> acc.local_targets + 1,
          global_targets |-> acc.global_targets + 1]
    ELSE IF link \in DOMAIN idx
         THEN [acc EXCEPT !.global_targets = @ + 1]
         ELSE acc

\* LinkVisit without `global_targets += 1` for a target in the environment.
LinkVisitLocalOnly(acc, link, local_source, idx) ==
    IF link \in DOMAIN acc.fi
    THEN [fi |-> [acc.fi EXCEPT ![link].inlinks_global = @ + 1,
                                ![link].inlinks_local =
                                    IF local_source THEN @ + 1 ELSE @],
          local_targets |-> acc.local_targets + 1,
          global_targets |-> acc.global_targets]
    ELSE IF link \in DOMAIN idx
         THEN [acc EXCEPT !.global_targets = @ + 1]
         ELSE acc

\* LinkVisit counting every existing target as a local one.
LinkVisitExistingLocal(acc, link, local_source, idx) ==
    IF link \in DOMAIN acc.fi
    THEN [fi |-> [acc.fi EXCEPT ![link].inlinks_global = @ + 1,
                                ![link].inlinks_local =
                                    IF local_source THEN @ + 1 ELSE @],
          local_targets |-> acc.local_targets + 1,
          global_targets |-> acc.global_targets + 1]
    ELSE IF link \in DOMAIN idx
         THEN [acc EXCEPT !.global_targets = @ + 1, !.local_targets = @ + 1]
         ELSE acc

\* The body of `for link in &note.links`.
LinkVisit(acc, link, local_source, idx) ==
    IF link \in DOMAIN acc.fi
    THEN [fi |-> [acc.fi EXCEPT ![link].inlinks_global = @ + 1,
                                ![link].inlinks_local =
                                    IF local_source THEN @ + 1 ELSE @],
          local_targets |-> acc.local_targets + 1,
          global_targets |-> acc.global_targets + 1]
    ELSE IF link \in DOMAIN idx
         THEN [acc EXCEPT !.global_targets = @ + 1]
         ELSE acc

RECURSIVE VisitLinks(_, _, _, _, _)
VisitLinks(acc, links, i, local_source, idx) ==
    IF i > Len(links) THEN acc
    ELSE VisitLinks(LinkVisit(acc, links[i], local_source, idx), links, i + 1,
                    local_source, idx)

\* SourceUpdate with the broken links taken against the local targets.
SourceUpdateBrokenLocal(fi, id, n, local_targets, global_targets) ==
    IF id \in DOMAIN fi
    THEN [fi EXCEPT ![id].outlinks_local = @ + local_targets,
                    ![id].outlinks_global = @ + global_targets,
                    ![id].broken_links = Len(n.links) - local_targets]
    ELSE fi

\* `if let Some((source, _)) = filtered_index.get_mut(id)` after the links.
SourceUpdate(fi, id, n, local_targets, global_targets) ==
    IF id \in DOMAIN fi
    THEN [fi EXCEPT ![id].outlinks_local = @ + local_targets,
                    ![id].outlinks_global = @ + global_targets,
                    ![id].broken_links = Len(n.links) - global_targets]
    ELSE fi

\* One iteration of `for (id, note) in index.iter()`.
CountSource(fi, id, idx) ==
    LET acc == VisitLinks([fi |-> fi, local_targets |-> 0, global_targets |-> 0],
                          idx[id].links, 1, id \in DOMAIN fi, idx)
    IN  SourceUpdate(acc.fi, id, idx[id], acc.local_targets, acc.global_targets)

RECURSIVE SumOver(_, _)
SumOver(S, f) ==
    IF S = {} THEN 0
    ELSE LET x == CHOOSE y \in S : TRUE IN f[x] + SumOver(S \ {x}, f)

RECURSIVE Reverse(_)
Reverse(seq) == IF seq = <<>> THEN <<>> ELSE Append(Reverse(Tail(seq)), Head(seq))

\* Insertion behind every element whose key is not greater: a stable sort.
RECURSIVE InsertByKey(_, _)
InsertByKey(sorted, e) ==
    IF sorted = <<>> THEN <<e>>
    ELSE IF Head(sorted).match_score <= e.match_score
         THEN <<Head(sorted)>> \o InsertByKey(Tail(sorted), e)
         ELSE <<e>> \o sorted

RECURSIVE SortByCachedKey(_, _, _)
SortByCachedKey(seq, i, sorted) ==
    IF i > Len(seq) THEN sorted
    ELSE SortByCachedKey(seq, i + 1, InsertByKey(sorted, seq[i]))

\* SortedStats without fs.reverse().
SortedStatsAscending(fs) == SortByCachedKey(fs, 1, <<>>)

\* fs.sort_by_cached_key(|env_stats| env_stats.match_score); fs.reverse();
SortedStats(fs) == Reverse(SortByCachedKey(fs, 1, <<>>))

\* The orders in which a HashMap may hand out its values.
Orders(S) == {o \in [1..Cardinality(S) -> S] : \A i, j \in DOMAIN o : o[i] = o[j] => i = j}

\* The struct expression that is returned; `order` is the order of into_values().
Aggregate(fi, idx, order) ==
    LET E == DOMAIN fi
    IN  [word_count_total |-> SumOver(E, [id \in E |-> idx[id].words]),
         char_count_total |-> SumOver(E, [id \in E |-> idx[id].characters]),
         note_count_total |-> Cardinality(E),
         tag_count_total |->
             Cardinality(UNION {{idx[id].tags[k] : k \in 1..Len(idx[id].tags)} : id \in E}),
         local_local_links |-> SumOver(E, [id \in E |-> fi[id].outlinks_local]),
         local_global_links |-> SumOver(E, [id \in E |-> fi[id].outlinks_global]),
         global_local_links |-> SumOver(E, [id \in E |-> fi[id].inlinks_global]),
         broken_links |-> SumOver(E, [id \in E |-> fi[id].broken_links]),
         filtered_stats |-> SortedStats([i \in 1..Len(order) |-> fi[order[i]]])]

\* First pass: filter_map(..).collect::<HashMap<_, _>>().
CollectEnvironment ==
    /\ pc = "collect"
    /\ filtered_index' =
          [id \in {i \in DOMAIN index : EnvEvaluate(env_filter, index[i]).is_some} |->
              new_empty(id, EnvEvaluate(env_filter, index[id]).val)]
    /\ todo' = DOMAIN index
    /\ pc' = "count"
    /\ UNCHANGED <<index, env_filter, stats, filter, newVars, applyVars>>

\* Second pass: the next (id, note) of index.iter(), in the map's own order.
CountLinks ==
    /\ pc = "count"
    /\ \E id \in todo :
          /\ filtered_index' = CountSource(filtered_index, id, index)
          /\ todo' = todo \ {id}
    /\ UNCHANGED <<pc, index, env_filter, stats, filter, newVars, applyVars>>

\* The returned value.  filtered_index is moved into it; the variable keeps
\* the map as it was when it was moved.
Finish ==
    /\ pc = "count"
    /\ todo = {}
    /\ \E order \in Orders(DOMAIN filtered_index) :
          stats' = Aggregate(filtered_index, index, order)
    /\ pc' = "done"
    /\ UNCHANGED <<index, env_filter, filtered_index, todo, filter, newVars, applyVars>>

-----------------------------------------------------------------------------
(* new_with_filters over small indexes *)

\* The number of links in the whole index.
MaxLinks == 4

NoteIds == {<<"x">>, <<"y">>, <<"z">>}

\* What a note holds besides its links.
Profile(id) ==
    CASE id = <<"x">> -> [name |-> <<"a", "b">>, tags |-> <<<<"a", "/", "b">>>>,
                          words |-> 2, characters |-> 9]
      [] id = <<"y">> -> [name |-> <<"b", "a">>, tags |-> <<<<"a">>>>,
                          words |-> 1, characters |-> 4]
      [] OTHER        -> [name |-> <<"A", "b">>, tags |-> <<<<"a", "/", "b">>, <<"b">>>>,
                          words |-> 3, characters |-> 12]

MakeNote(id, links) ==
    [name |-> Profile(id).name, tags |-> Profile(id).tags, links |-> links,
     words |-> Profile(id).words, characters |-> Profile(id).characters]

\* The ways to give the notes of D link lists of at most `budget` links
\* together.
RECURSIVE LinkAssignments(_, _)
LinkAssignments(D, budget) ==
    IF D = {} THEN {<<>>}
    ELSE LET id == CHOOSE x \in D : TRUE
         IN  UNION {
               {[x \in D |-> IF x = id THEN l ELSE rest[x]] :
                   rest \in LinkAssignments(D \ {id}, budget - Len(l))} :
               l \in Str(budget, NoteIds)}

\* Every index over a subset of NoteIds with at most MaxLinks links; a link
\* to an id outside the subset is a broken one.
Indexes ==
    UNION {{[id \in D |-> MakeNote(id, ll[id])] : ll \in LinkAssignments(D, MaxLinks)} :
           D \in SUBSET NoteIds}

EnvFilterTags == {<<"a">>, <<"a", "/", "b">>}

EnvFilters ==
    [all_tags : BOOLEAN,
     tags : {<<>>} \cup {<<t>> : t \in EnvFilterTags}
                   \cup {p \in EnvFilterTags \X EnvFilterTags : p[1] # p[2]},
     title : {<<>>, <<"b">>, <<"b", "a">>}]

InitStats ==
    /\ pc = "collect"
    /\ index \in Indexes
    /\ env_filter \in EnvFilters
    /\ filtered_index = <<>>
    /\ todo = {}
    /\ stats = NoStats
    /\ filter = EmptyFilter(FALSE)
    /\ IdleNew
    /\ IdleApply

NextStats == CollectEnvironment \/ CountLinks \/ Finish

SpecStats == InitStats /\ [][NextStats]_vars

-----------------------------------------------------------------------------
(* Properties of the returned statistics *)

\* The number of links of a note whose target lies in S.
LinksInto(n, S) == Cardinality({i \in 1..Len(n.links) : n.links[i] \in S})

\* The environment: the notes the first pass kept.
Env == DOMAIN filtered_index

StatIds == {stats.filtered_stats[i].id : i \in 1..Len(stats.filtered_stats)}

Entries == 1..Len(stats.filtered_stats)

\* The filter::Filter that states what a note_statistics::Filter asks for:
\* every tag wanted, no link predicate, ALL or ANY as all_tags says.
AsFilter(ef) ==
    [any |-> ~ef.all_tags,
     tags |-> [i \in 1..Len(ef.tags) |-> <<ef.tags[i], TRUE>>],
     links |-> <<>>,
     title |-> ef.title]

\* C1: the environment of new_with_filters is exactly the set of notes of the
\* index for which Filter::apply returns some(score), and that score is the
\* recorded match_score.
C1_EnvironmentIsApply ==
    pc = "done" =>
        \A id \in DOMAIN index :
            LET r == Apply(AsFilter(env_filter), index[id])
            IN  /\ (id \in StatIds) = r.is_some
                /\ \A i \in Entries :
                      stats.filtered_stats[i].id = id =>
                          stats.filtered_stats[i].match_score = r.val

\* C5: local_local_links <= local_global_links <= the number of outgoing
\* links of the environment notes, and global_local_links >= local_local_links.
C5_LinkTotalsOrdered ==
    pc = "done" =>
        /\ stats.local_local_links <= stats.local_global_links
        /\ stats.local_global_links
              <= SumOver(Env, [id \in Env |-> Len(index[id].links)])
        /\ stats.global_local_links >= stats.local_local_links

\* All four totals differ: a link inside the environment, one out of it to
\* an existing note, one into it from outside, one broken.
C5_Witness ==
    /\ pc = "done"
    /\ stats.local_local_links = 1
    /\ stats.local_global_links = 2
    /\ stats.global_local_links = 2
    /\ SumOver(Env, [id \in Env |-> Len(index[id].links)]) = 3

\* C6: the aggregate broken_links is the number of outgoing links of
\* environment notes whose target is no key of the full index.
C6_BrokenLinksTotal ==
    pc = "done" =>
        stats.broken_links =
            SumOver(Env, [id \in Env |->
                            Len(index[id].links) - LinksInto(index[id], DOMAIN index)])

\* An environment note links to an existing note outside the environment
\* (not broken) and to a missing id (broken); a note outside has a broken
\* link that is not counted.
C6_Witness ==
    /\ pc = "done"
    /\ stats.broken_links = 1
    /\ \E s \in Env : LinksInto(index[s], DOMAIN index \ Env) = 1
                      /\ LinksInto(index[s], DOMAIN index) < Len(index[s].links)
    /\ \E o \in DOMAIN index \ Env : LinksInto(index[o], DOMAIN index) < Len(index[o].links)

\* C7: every environment note has outlinks_local = its links into the
\* environment, outlinks_global = its links to notes of the index,
\* broken_links = its links - outlinks_global; notes outside the environment
\* have no entry.
C7_OutlinksPerNote ==
    pc = "done" =>
        /\ StatIds = Env
        /\ \A i \in Entries :
              LET e == stats.filtered_stats[i]
                  n == index[e.id]
              IN  /\ e.outlinks_local = LinksInto(n, Env)
                  /\ e.outlinks_global = LinksInto(n, DOMAIN index)
                  /\ e.broken_links = Len(n.links) - e.outlinks_global

\* One link to the environment, one to an existing note outside it, one to a
\* missing id, while a note outside the environment has a link of its own.
C7_Witness ==
    /\ pc = "done"
    /\ \E i \in Entries :
          LET e == stats.filtered_stats[i]
          IN  e.outlinks_local = 1 /\ e.outlinks_global = 2 /\ e.broken_links = 1
    /\ \E o \in DOMAIN index \ Env : Len(index[o].links) > 0

\* C8: every environment note t has inlinks_global = the links with target t
\* over all notes of the index and inlinks_local = those whose source is in
\* the environment, hence inlinks_local <= inlinks_global.
C8_InlinksPerNote ==
    pc = "done" =>
        \A i \in Entries :
            LET e == stats.filtered_stats[i]
                D == DOMAIN index
            IN  /\ e.inlinks_global = SumOver(D, [s \in D |-> LinksInto(index[s], {e.id})])
                /\ e.inlinks_local = SumOver(Env, [s \in Env |-> LinksInto(index[s], {e.id})])
                /\ e.inlinks_local <= e.inlinks_global

\* A note linked from inside and from outside the environment.
C8_Witness ==
    /\ pc = "done"
    /\ \E i \in Entries :
          LET e == stats.filtered_stats[i]
          IN  /\ e.inlinks_local = 1 /\ e.inlinks_global = 2
              /\ \E s \in Env \ {e.id} : LinksInto(index[s], {e.id}) = 1

\* C9: filtered_stats holds exactly one entry per environment note, ordered
\* by match_score descending.
C9_SortedDescending ==
    pc = "done" =>
        /\ Len(stats.filtered_stats) = Cardinality(Env)
        /\ StatIds = Env
        /\ \A i \in Entries :
              i + 1 \in Entries =>
                  stats.filtered_stats[i].match_score
                      >= stats.filtered_stats[i + 1].match_score

\* Three entries, the first with a higher score than the other two.
C9_Witness ==
    /\ pc = "done"
    /\ Len(stats.filtered_stats) = 3
    /\ stats.filtered_stats[1].match_score > stats.filtered_stats[2].match_score
    /\ stats.filtered_stats[2].match_score = stats.filtered_stats[3].match_score

\* C10: the inlinks_local of the environment notes sum to the same number as
\* their outlinks_local, also with a note that links to itself or lists a
\* target twice.
C10_LocalInEqualsLocalOut ==
    pc = "done" =>
        SumOver(Entries, [i \in Entries |-> stats.filtered_stats[i].inlinks_local])
            = SumOver(Entries, [i \in Entries |-> stats.filtered_stats[i].outlinks_local])

\* An environment note links to itself and twice to another environment
\* note, and a note outside the environment links into it.
C10_Witness ==
    /\ pc = "done"
    /\ \E s \in Env :
          /\ LinksInto(index[s], {s}) = 1
          /\ \E t \in Env \ {s} : LinksInto(index[s], {t}) = 2
    /\ \E o \in DOMAIN index \ Env : LinksInto(index[o], Env) = 1
    /\ stats.local_local_links = 3

=============================================================================
